---- MODULE Spec2Model ----
(***************************************************************************)
(* A model of reactive/grafana.py: the reactive handlers of the grafana    *)
(* charm that reconcile the related datasources (configure_sources,        *)
(* check_datasource, generate_query) and the administrator account        *)
(* (check_config, db_init, check_adminuser, hpwgen) against the two        *)
(* tables DATA_SOURCE and user of /var/lib/grafana/grafana.db.             *)
(*                                                                         *)
(* A table is the sequence of its rows in rowid order (the order a SELECT  *)
(* without ORDER BY returns them); a row is a record of its columns.  A    *)
(* datasource descriptor is a Python dict, modelled as a record whose      *)
(* DOMAIN is the set of keys the dict carries.                             *)
(***************************************************************************)
EXTENDS Integers, Sequences, FiniteSets, TLC

VARIABLES
    data_source,  \* the DATA_SOURCE table
    user,         \* the user table
    config,       \* hookenv.config(): admin_password, nagios_context
    kv,           \* unitdata.kv() as the running hook sees it
    kvDisk,       \* unitdata.kv() as last flushed by a hook that ended well
    pc,           \* "idle", "sources" inside the loop of configure_sources,
                  \* "sleep" inside the sleep(10) of db_init
    pass,         \* sources of the running configure_sources, <<>> when idle
    queue,        \* the datasources of pass still to check
    conn,         \* the last sqlite3 connection: "none", "open" or "closed"
    applied,      \* history: the snapshot of the last pass, if it ran to its end
    failed,       \* history: the snapshot of the last pass, if a store error
                  \* ended it and nothing else was delivered since
    generated,    \* history: host.pwgen has been called
    last          \* history: what the last step did

vars ==
    <<data_source, user, config, kv, kvDisk, pc, pass, queue, conn, applied,
      failed, generated, last>>

\* ------------------------------------------------------------------ bounds
\* datetime.today() reads one of the seconds 0..MaxTime.
MaxTime == 1
\* A snapshot (relation.datasources()) lists at most MaxSources descriptors.
MaxSources == 2
\* configure_sources is not delivered once the table could outgrow MaxRows.
MaxRows == 5

\* ------------------------------------------------------------------ values
\* SQL NULL in a TEXT column (Python None).
Null == "<NULL>"

Urls == {"http://10.0.3.216:9090", "http://localhost:9090"}

\* The dict of one related datasource (the comment of check_datasource).
BaseDs(u) ==
    [service_name |-> "prometheus", description |-> "Juju generated source",
     type |-> "prometheus", url |-> u]

WithUser(d) == [username |-> "username"] @@ d
WithBoth(d) == [username |-> "username", password |-> "password"] @@ d

\* The descriptors a relation can deliver: without credentials, with both a
\* username and a password, and with a username alone.
DsUniverse ==
    {BaseDs("http://10.0.3.216:9090"),
     WithBoth(BaseDs("http://localhost:9090")),
     WithUser(BaseDs("http://localhost:9090"))}

RECURSIVE SeqsUpTo(_, _)
SeqsUpTo(S, n) ==
    IF n = 0 THEN {<<>>}
    ELSE LET shorter == SeqsUpTo(S, n - 1)
         IN  shorter \cup {Append(s, x) : s \in {t \in shorter : Len(t) = n - 1}, x \in S}

\* A snapshot lists each related datasource once.
Snapshots ==
    {s \in SeqsUpTo(DsUniverse, MaxSources) :
        \A i, j \in DOMAIN s : s[i] = s[j] => i = j}

\* A placeholder descriptor for the steps that check no datasource.
NoDs == [service_name |-> "", description |-> "", type |-> "", url |-> ""]

\* ------------------------------------------------------------- DATA_SOURCE
\* The columns an INSERT does not name: NULL, or the column's DEFAULT.
DataSourceDefaults ==
    [password |-> Null, user |-> Null, database |-> Null,
     basic_auth_user |-> Null, basic_auth_password |-> Null,
     json_data |-> Null, with_credentials |-> 0]

\* The row of the docstring of check_datasource.
SampleRow ==
    [id |-> 1, org_id |-> 1, version |-> 0, type |-> "prometheus",
     name |-> "BootStack Prometheus", access |-> "proxy",
     url |-> "http://localhost:9090", password |-> "", user |-> "",
     database |-> "", basic_auth |-> 0, basic_auth_user |-> "",
     basic_auth_password |-> "", is_default |-> 1, json_data |-> "{}",
     created |-> 0, updated |-> 0, with_credentials |-> 0]

\* A row of another type with the name and url of a related datasource.
GraphiteRow ==
    [SampleRow EXCEPT !.id = 2, !.type = "graphite",
                      !.name = "prometheus - Juju generated source",
                      !.url = "http://10.0.3.216:9090", !.is_default = 0]

\* A row with the natural key of the related datasource at localhost, a
\* default one with credentials and json data of its own.
RelatedRow ==
    [SampleRow EXCEPT !.id = 4, !.name = "prometheus - Juju generated source",
                      !.basic_auth = 1,
                      !.basic_auth_user = "old", !.basic_auth_password = "oldpw",
                      !.json_data = "{\"httpMethod\":\"GET\"}"]

\* The tables the charm can find: no two rows share (type, name, url).
InitialDataSources ==
    {<<>>, <<SampleRow>>, <<GraphiteRow, RelatedRow>>}


\* ------------------------------------------------------ unitdata and hashes
\* data_changed keeps a digest of the serialised data: equal data, equal digest.
NoHash == <<"none">>
Hash(data) == <<"md5", data>>

\* A data_changed that reports every delivery as a change.
data_changed_Always(kvv, data_id, data) == TRUE

\* data_changed(data_id, data): whether the digest differs from the stored one.
data_changed(kvv, data_id, data) == kvv[data_id] # Hash(data)

\* ... and the store of the new digest, which data_changed does in either case.
DataChangedStore(kvv, data_id, data) == [kvv EXCEPT ![data_id] = Hash(data)]

\* ---------------------------------------------------------------- sqlite
Max(S) == CHOOSE x \in S : \A y \in S : y <= x

\* INTEGER PRIMARY KEY AUTOINCREMENT: one more than the largest id.
NextId(table) ==
    IF table = <<>> THEN 1 ELSE 1 + Max({table[i].id : i \in DOMAIN table})

\* A row satisfies a WHERE clause, a set of <<column, value>> equalities; a
\* statement without WHERE has the empty set, which every row satisfies.
Satisfies(row, where) == \A w \in where : row[w[1]] = w[2]

\* cur.execute(stmt, values) followed by conn.commit().
Execute(table, q, defaults) ==
    IF q.stmt = "INSERT"
    THEN Append(table, q.values @@ [id |-> NextId(table)] @@ defaults)
    ELSE [i \in DOMAIN table |->
            IF Satisfies(table[i], q.where) THEN q.values @@ table[i]
            ELSE table[i]]

\* ---------------------------------------------------------- generate_query
\* ds_name, as check_datasource and generate_query both format it.
DsName(ds) == ds.service_name \o " - " \o ds.description

HasCredentials(ds) == "username" \in DOMAIN ds /\ "password" \in DOMAIN ds

\* An INSERT that binds the password under basic_auth_user and the username
\* under basic_auth_password.
InsertValues_Swapped(ds, is_default, dtime) ==
    [org_id |-> 1, version |-> 0, type |-> ds.type, name |-> DsName(ds),
     access |-> "proxy", url |-> ds.url, is_default |-> is_default,
     created |-> dtime, updated |-> dtime]
    @@ (IF HasCredentials(ds)
        THEN [basic_auth |-> 1, basic_auth_user |-> ds.password,
              basic_auth_password |-> ds.username]
        ELSE [basic_auth |-> 0])

\* The columns the INSERT of generate_query names, with their values.
InsertValues(ds, is_default, dtime) ==
    [org_id |-> 1, version |-> 0, type |-> ds.type, name |-> DsName(ds),
     access |-> "proxy", url |-> ds.url, is_default |-> is_default,
     created |-> dtime, updated |-> dtime]
    @@ (IF HasCredentials(ds)
        THEN [basic_auth |-> 1, basic_auth_user |-> ds.username,
              basic_auth_password |-> ds.password]
        ELSE [basic_auth |-> 0])

\* An UPDATE that, without credentials, resets the flag alone.
UpdateValues_FlagOnly(ds) ==
    IF HasCredentials(ds)
    THEN [basic_auth_user |-> ds.username, basic_auth_password |-> ds.password,
          basic_auth |-> 1]
    ELSE [basic_auth |-> 0]

\* The columns the UPDATE of generate_query sets, with their values.
UpdateValues(ds) ==
    IF HasCredentials(ds)
    THEN [basic_auth_user |-> ds.username, basic_auth_password |-> ds.password,
          basic_auth |-> 1]
    ELSE [basic_auth_user |-> "", basic_auth_password |-> "", basic_auth |-> 0]

\* generate_query(ds, is_default, id), with id = 0 for id=None ("not id" holds
\* of both) and dtime what datetime.today() reads.  Neither statement has a
\* WHERE clause.
generate_query(ds, is_default, id, dtime) ==
    IF id = 0
    THEN [stmt |-> "INSERT", values |-> InsertValues(ds, is_default, dtime),
          where |-> {}]
    ELSE [stmt |-> "UPDATE", values |-> UpdateValues(ds), where |-> {}]

\* --------------------------------------------------------- check_datasource
\* A test that compares the row's name with the service name alone.
RowMatches_ServiceName(row, ds) ==
    row.type = ds.type /\ row.name = ds.service_name /\ row.url = ds.url

\* A test that leaves the type out.
RowMatches_NoType(row, ds) == row.name = DsName(ds) /\ row.url = ds.url

\* Whether a fetched row is the datasource: the test of the loop over rows.
RowMatches(row, ds) ==
    row.type = ds.type /\ row.name = DsName(ds) /\ row.url = ds.url

\* The index of the first row of the table that matches, 0 when none does.
FirstMatch(rows, ds) ==
    IF \E i \in DOMAIN rows : RowMatches(rows[i], ds)
    THEN CHOOSE i \in DOMAIN rows :
            /\ RowMatches(rows[i], ds)
            /\ \A j \in 1..(i - 1) : ~RowMatches(rows[j], ds)
    ELSE 0

\* The statement check_datasource executes for ds against the rows it read.
DatasourceQuery(rows, ds, dtime) ==
    LET m == FirstMatch(rows, ds)
    IN  IF m # 0
        THEN generate_query(ds, rows[m].is_default, rows[m].id, dtime)
        ELSE generate_query(ds, 0, 0, dtime)

\* The table after check_datasource(ds) ran without a store error.
check_datasource(rows, ds, dtime) ==
    Execute(rows, DatasourceQuery(rows, ds, dtime), DataSourceDefaults)


\* -------------------------------------------------------------------- user
\* hpwgen(passwd, salt): pbkdf2.PBKDF2(passwd, salt, 10000, sha256).hexread(50),
\* the digest written as the text of its inputs (distinct inputs, distinct
\* digests).
hpwgen(passwd, salt) ==
    "PBKDF2(" \o passwd \o "," \o salt \o ",10000,sha256).hexread(50)"

\* The admin row of the docstring of check_adminuser, as grafana creates it
\* (password "admin", no name, no theme) before the charm touches it.
AdminRow ==
    [id |-> 1, version |-> 0, login |-> "admin", email |-> "admin@localhost",
     name |-> "", password |-> hpwgen("admin", "LZeJ3nSdrC"),
     salt |-> "LZeJ3nSdrC", rands |-> "hseJcLcnPN", company |-> "",
     org_id |-> 1, is_admin |-> 1, email_verified |-> 0, theme |-> "",
     created |-> 0, updated |-> 0]

\* An account that is not the administrator.
ViewerRow ==
    [AdminRow EXCEPT !.login = "viewer", !.email = "viewer@localhost",
                     !.name = "Viewer", !.salt = "Qx7vTb2mKe",
                     !.password = hpwgen("viewer", "Qx7vTb2mKe"),
                     !.rands = "pL0aZw8RtY", !.is_admin = 0, !.theme = "dark"]

\* The user tables the charm can find: the admin alone, the admin behind
\* another account, no admin at all, and an admin whose salt is NULL (the
\* column is `salt` TEXT NULL).
InitialUsers ==
    {<<AdminRow>>,
     <<ViewerRow, [AdminRow EXCEPT !.id = 2]>>,
     <<ViewerRow>>,
     <<[AdminRow EXCEPT !.salt = Null, !.password = Null]>>}

\* hookenv.config(): "" stands for an option that is not set (falsy).
Configs ==
    [admin_password : {"", "s3cret"}, nagios_context : {"", "bootstack-ps45"}]

\* host.pwgen(16) returns one of these.
GenPasswords == {"tho6phaTeeVie9ai", "Eixei8uapheiM3ee"}

\* passwd of check_adminuser: the configured one, or gen = host.pwgen(16).
AdminPassword(cfg, gen) ==
    IF cfg.admin_password # "" THEN cfg.admin_password ELSE gen

\* email of check_adminuser.
AdminEmail(cfg) ==
    "root+" \o (IF cfg.nagios_context # "" THEN cfg.nagios_context ELSE "UNKNOWN")
            \o "@canonical.com"

\* A search that falls back on the first row fetched when no login is 'admin'.
FirstAdmin_OrFirst(rows) ==
    IF \E i \in DOMAIN rows : rows[i].login = "admin"
    THEN CHOOSE i \in DOMAIN rows :
            /\ rows[i].login = "admin"
            /\ \A j \in 1..(i - 1) : rows[j].login # "admin"
    ELSE IF rows = <<>> THEN 0 ELSE 1

\* The index of the first fetched row with login 'admin', 0 when none has it.
FirstAdmin(rows) ==
    IF \E i \in DOMAIN rows : rows[i].login = "admin"
    THEN CHOOSE i \in DOMAIN rows :
            /\ rows[i].login = "admin"
            /\ \A j \in 1..(i - 1) : rows[j].login # "admin"
    ELSE 0

\* An UPDATE that also writes a salt of its own.
AdminQuery_NewSalt(row, email, hpasswd) ==
    [stmt   |-> "UPDATE",
     values |-> [email |-> email, name |-> "BootStack Team",
                 password |-> hpasswd, theme |-> "light", salt |-> "F3FAxVm33R"],
     where  |-> {<<"id", row.id>>}]

\* An UPDATE without its WHERE id = ?.
AdminQuery_NoWhere(row, email, hpasswd) ==
    [stmt   |-> "UPDATE",
     values |-> [email |-> email, name |-> "BootStack Team",
                 password |-> hpasswd, theme |-> "light"],
     where  |-> {}]

\* stmt of check_adminuser with its values (email, hpasswd, row[0]).
AdminQuery(row, email, hpasswd) ==
    [stmt   |-> "UPDATE",
     values |-> [email |-> email, name |-> "BootStack Team",
                 password |-> hpasswd, theme |-> "light"],
     where  |-> {<<"id", row.id>>}]

\* A pbkdf2 that takes any salt.
DerivationRaises_Never(rows) == FALSE

\* pbkdf2 raises TypeError for a salt that is no string.
DerivationRaises(rows) == FirstAdmin(rows) # 0 /\ rows[FirstAdmin(rows)].salt = Null

\* A check_adminuser that derives the hash from the salt of the first row
\* fetched, whichever account that is.
check_adminuser_FirstSalt(rows, passwd, cfg) ==
    LET m == FirstAdmin(rows)
    IN  IF m = 0 THEN rows
        ELSE LET hpasswd == hpwgen(passwd, rows[1].salt)
             IN  IF hpasswd # ""
                 THEN Execute(rows, AdminQuery(rows[m], AdminEmail(cfg), hpasswd),
                              <<>>)
                 ELSE rows

\* The user table after check_adminuser ran without an exception.
check_adminuser(rows, passwd, cfg) ==
    LET m == FirstAdmin(rows)
    IN  IF m = 0 THEN rows
        ELSE LET hpasswd == hpwgen(passwd, rows[m].salt)
             IN  IF hpasswd # ""
                 THEN Execute(rows, AdminQuery(rows[m], AdminEmail(cfg), hpasswd),
                              <<>>)
                 ELSE rows


\* ----------------------------------------------------------------- history
NoSnapshot == <<NoDs>>

Done(op, ds, path, passwd) ==
    [op |-> op, ds |-> ds, path |-> path, passwd |-> passwd]

\* ------------------------------------------------------------------- hooks
\* charms.reactive flushes unitdata when the hook ends without an exception;
\* what a failed hook set (states and data_changed digests too) is lost.
HookEnds(kvv) == kv' = kvv /\ kvDisk' = kvv
HookFails == kv' = kvDisk /\ UNCHANGED kvDisk

Idle == pc = "idle"
Active(state) == state \in kv.states
SetState(kvv, state) == [kvv EXCEPT !.states = @ \cup {state}]

\* Where sqlite3.OperationalError can be raised: by sqlite3.connect (no
\* connection exists then), by the SELECT, or by cur.execute of the INSERT or
\* UPDATE.
Stages == {"connect", "select", "execute"}
Seconds == 0..MaxTime

\* The connection after a step that met OperationalError at stage: neither
\* function has a finally, so conn.close() is not reached.
ConnAfterError(stage) == IF stage = "connect" THEN "none" ELSE "open"

\* A cur.execute that raises under autocommit: the statement is applied.
ExecuteFails_Applied(table, q, defaults) == Execute(table, q, defaults)

\* The table after cur.execute(stmt, values) raised: conn.commit() is not
\* reached, and nothing of the statement is kept.
ExecuteFails(table, q, defaults) == table

\* Both tables of grafana.db.
Store == [data_source |-> data_source, user |-> user]

\* A check_datasource whose UPDATE blanks the password column of user.
StoreAfterCheck_UserTable(db, ds, dtime) ==
    [db EXCEPT !.user =
        Execute(@, [stmt |-> "UPDATE", values |-> [password |-> ""],
                    where |-> {}], <<>>)]

\* grafana.db after check_datasource(ds): its statements name DATA_SOURCE.
StoreAfterCheck(db, ds, dtime) ==
    [db EXCEPT !.data_source = check_datasource(@, ds, dtime)]

\* grafana.db after check_adminuser(): its statements name user.
StoreAfterRotation(db, passwd, cfg) ==
    [db EXCEPT !.user = check_adminuser(@, passwd, cfg)]

\* The state after construction, over the tables and configurations given.
InitOver(tables, users, cfgs) ==
    /\ data_source \in tables
    /\ user \in users
    /\ config \in cfgs
    /\ kv = [states |-> {}, sources |-> NoHash, config |-> NoHash,
             admin_password |-> Null, db_init |-> FALSE]
    /\ kvDisk = kv
    /\ pc = "idle"
    /\ pass = <<>>
    /\ queue = <<>>
    /\ conn = "none"
    /\ applied = NoSnapshot
    /\ failed = NoSnapshot
    /\ generated = FALSE
    /\ last = Done("init", NoDs, "", "")

\* @when_not('grafana.started') setup_grafana: installs, renders grafana.ini,
\* opens the port and sets 'grafana.start'.
setup_grafana ==
    /\ Idle
    /\ ~Active("grafana.started")
    /\ HookEnds(SetState(kv, "grafana.start"))
    /\ last' = Done("setup_grafana", NoDs, "", "")
    /\ UNCHANGED <<data_source, user, config, pc, pass, queue, conn, applied,
                   failed, generated>>

\* @when('grafana.start') restart_grafana: starts the service, sets
\* 'grafana.started'.
restart_grafana ==
    /\ Idle
    /\ Active("grafana.start")
    /\ HookEnds(SetState(kv, "grafana.started"))
    /\ last' = Done("restart_grafana", NoDs, "", "")
    /\ UNCHANGED <<data_source, user, config, pc, pass, queue, conn, applied,
                   failed, generated>>

\* The grafana-source relation reports a datasource: the interface layer sets
\* 'grafana-source.available'.
SourceAvailable ==
    /\ Idle
    /\ ~Active("grafana-source.available")
    /\ HookEnds(SetState(kv, "grafana-source.available"))
    /\ last' = Done("source_available", NoDs, "", "")
    /\ UNCHANGED <<data_source, user, config, pc, pass, queue, conn, applied,
                   failed, generated>>

\* The operator changes the charm's configuration.
ConfigChanged(cfg) ==
    /\ Idle
    /\ cfg # config
    /\ config' = cfg
    /\ last' = Done("config", NoDs, "", "")
    /\ UNCHANGED <<data_source, user, kv, kvDisk, pc, pass, queue, conn,
                   applied, failed, generated>>

\* @when('grafana.started') @when('grafana-source.available')
\* configure_sources(relation), up to its first check_datasource.
configure_sources(sources) ==
    /\ Idle
    /\ Active("grafana.started")
    /\ Active("grafana-source.available")
    /\ Len(data_source) + Len(sources) <= MaxRows
    /\ LET changed == data_changed(kv, "sources", sources)
           kv1 == DataChangedStore(kv, "sources", sources)
       IN  IF ~changed \/ sources = <<>>
           THEN /\ HookEnds(kv1)
                /\ applied' = sources
                /\ failed' = NoSnapshot
                /\ last' = Done("configure_sources", NoDs,
                                IF changed THEN "changed" ELSE "unchanged", "")
                /\ UNCHANGED <<pc, pass, queue>>
           ELSE /\ kv' = kv1
                /\ pc' = "sources"
                /\ pass' = sources
                /\ queue' = sources
                /\ applied' = NoSnapshot
                /\ failed' = IF failed = sources THEN failed ELSE NoSnapshot
                /\ last' = Done("configure_sources", NoDs, "changed", "")
                /\ UNCHANGED kvDisk
    /\ UNCHANGED <<data_source, user, config, conn, generated>>

\* One turn of the loop of configure_sources: check_datasource(ds) connects,
\* reads the rows, executes its statement, commits and closes; after the
\* last one the hook ends.  dtime is what datetime.today() reads.
CheckDatasource(dtime) ==
    /\ pc = "sources"
    /\ LET ds == Head(queue)
           db == StoreAfterCheck(Store, ds, dtime)
       IN  /\ data_source' = db.data_source
           /\ user' = db.user
           /\ last' = Done("check_datasource", ds,
                           IF FirstMatch(data_source, ds) # 0 THEN "update"
                           ELSE "insert", "")
    /\ conn' = "closed"
    /\ queue' = Tail(queue)
    /\ IF Tail(queue) = <<>>
       THEN /\ pc' = "idle"
            /\ pass' = <<>>
            /\ kvDisk' = kv
            /\ applied' = pass
            /\ failed' = NoSnapshot
       ELSE UNCHANGED <<pc, pass, kvDisk, applied, failed>>
    /\ UNCHANGED <<config, kv, generated>>

\* check_datasource(ds) meets sqlite3.OperationalError at stage: nothing is
\* committed, nothing catches it, the loop is left and the hook fails.
CheckDatasourceError(stage) ==
    /\ pc = "sources"
    /\ HookFails
    /\ data_source' =
          IF stage = "execute"
          THEN ExecuteFails(data_source,
                            DatasourceQuery(data_source, Head(queue), 0),
                            DataSourceDefaults)
          ELSE data_source
    /\ conn' = ConnAfterError(stage)
    /\ pc' = "idle"
    /\ pass' = <<>>
    /\ queue' = <<>>
    /\ applied' = NoSnapshot
    /\ failed' = pass
    /\ last' = Done("check_datasource", Head(queue), "error-" \o stage, "")
    /\ UNCHANGED <<user, config, generated>>

\* A check_config without its @when('grafana.started').
check_config_Unguarded ==
    /\ Idle
    /\ LET changed == data_changed(kv, "config", config)
           kv1 == DataChangedStore(kv, "config", config)
           kv2 == IF changed THEN SetState(kv1, "grafana.start") ELSE kv1
       IN  IF kv2.db_init
           THEN /\ HookEnds(kv2)
                /\ last' = Done("check_config", NoDs, "not-run", "")
                /\ UNCHANGED pc
           ELSE /\ kv' = kv2
                /\ pc' = "sleep"
                /\ last' = Done("check_config", NoDs, "sleep", "")
                /\ UNCHANGED kvDisk
    /\ UNCHANGED <<data_source, user, config, pass, queue, conn, applied,
                   failed, generated>>

\* @when('grafana.started') check_config, up to the sleep(10) of db_init:
\* setup_grafana() when the config changed, then db_init(), which @only_once
\* lets through once.
check_config ==
    /\ Idle
    /\ Active("grafana.started")
    /\ LET changed == data_changed(kv, "config", config)
           kv1 == DataChangedStore(kv, "config", config)
           kv2 == IF changed THEN SetState(kv1, "grafana.start") ELSE kv1
       IN  IF kv2.db_init
           THEN /\ HookEnds(kv2)
                /\ last' = Done("check_config", NoDs, "not-run", "")
                /\ UNCHANGED pc
           ELSE /\ kv' = kv2
                /\ pc' = "sleep"
                /\ last' = Done("check_config", NoDs, "sleep", "")
                /\ UNCHANGED kvDisk
    /\ UNCHANGED <<data_source, user, config, pass, queue, conn, applied,
                   failed, generated>>

\* unitdata after check_adminuser chose passwd: a generated one is kept
\* under 'grafana.admin_password'.
KeepPassword(kvv, cfg, passwd) ==
    IF cfg.admin_password = "" THEN [kvv EXCEPT !.admin_password = passwd]
    ELSE kvv

\* The sleep(10) of db_init is over: check_adminuser() runs, and db_init is
\* marked as invoked if it returns.  gen is what host.pwgen(16) returns if it
\* is called.
db_init(gen) ==
    /\ pc = "sleep"
    /\ pc' = "idle"
    /\ generated' = (generated \/ config.admin_password = "")
    /\ LET passwd == AdminPassword(config, gen)
           db == StoreAfterRotation(Store, passwd, config)
       IN  IF DerivationRaises(user)
           THEN /\ HookFails
                /\ conn' = "open"
                /\ last' = Done("check_config", NoDs, "raised", passwd)
                /\ UNCHANGED <<data_source, user>>
           ELSE /\ data_source' = db.data_source
                /\ user' = db.user
                /\ HookEnds([KeepPassword(kv, config, passwd)
                                EXCEPT !.db_init = TRUE])
                /\ conn' = "closed"
                /\ last' = Done("check_config", NoDs,
                                IF FirstAdmin(user) = 0 THEN "no-admin"
                                ELSE "rotated", passwd)
    /\ UNCHANGED <<config, pass, queue, applied, failed>>

\* db_init when check_adminuser meets sqlite3.OperationalError at stage: it
\* logs and returns, nothing is committed, and db_init ends normally.
DbInitStoreError(gen, stage) ==
    /\ pc = "sleep"
    /\ stage = "execute" => FirstAdmin(user) # 0 /\ ~DerivationRaises(user)
    /\ pc' = "idle"
    /\ generated' = (generated \/ config.admin_password = "")
    /\ LET passwd == AdminPassword(config, gen)
       IN  /\ user' =
                 IF stage = "execute"
                 THEN ExecuteFails(user,
                          AdminQuery(user[FirstAdmin(user)], AdminEmail(config),
                                     hpwgen(passwd, user[FirstAdmin(user)].salt)),
                          <<>>)
                 ELSE user
           /\ HookEnds([KeepPassword(kv, config, passwd) EXCEPT !.db_init = TRUE])
           /\ last' = Done("check_config", NoDs, "store-error", passwd)
    /\ conn' = ConnAfterError(stage)
    /\ UNCHANGED <<data_source, config, pass, queue, applied, failed>>

\* ---------------------------------------------------------- specifications
\* The datasource flow alone, over every snapshot, beside one account table
\* and one configuration that nothing changes.
InitSources ==
    InitOver(InitialDataSources, {<<AdminRow>>},
             {[admin_password |-> "", nagios_context |-> ""]})

NextSources ==
    \/ setup_grafana
    \/ restart_grafana
    \/ SourceAvailable
    \/ \E sources \in Snapshots : configure_sources(sources)
    \/ \E dtime \in Seconds : CheckDatasource(dtime)
    \/ \E stage \in Stages : CheckDatasourceError(stage)

SpecSources == InitSources /\ [][NextSources]_vars

\* The account flow alone, over every account table and configuration,
\* beside a DATA_SOURCE table that nothing changes.
InitAdmin == InitOver({<<SampleRow>>}, InitialUsers, Configs)

NextAdmin ==
    \/ setup_grafana
    \/ restart_grafana
    \/ \E cfg \in Configs : ConfigChanged(cfg)
    \/ check_config
    \/ \E gen \in GenPasswords : db_init(gen)
    \/ \E gen \in GenPasswords, stage \in Stages : DbInitStoreError(gen, stage)

SpecAdmin == InitAdmin /\ [][NextAdmin]_vars

\* The snapshots of the whole system: those of one datasource.
FewSnapshots == {s \in Snapshots : Len(s) = 1}

\* The whole system: both flows, in any order.
Init == InitOver({<<GraphiteRow, RelatedRow>>}, InitialUsers, Configs)

Next ==
    \/ setup_grafana
    \/ restart_grafana
    \/ SourceAvailable
    \/ \E cfg \in Configs : ConfigChanged(cfg)
    \/ \E sources \in FewSnapshots : configure_sources(sources)
    \/ \E dtime \in Seconds : CheckDatasource(dtime)
    \/ \E stage \in Stages : CheckDatasourceError(stage)
    \/ check_config
    \/ \E gen \in GenPasswords : db_init(gen)
    \/ \E gen \in GenPasswords, stage \in Stages : DbInitStoreError(gen, stage)

Spec == Init /\ [][Next]_vars

\* ================================================================== claims
\* The natural key of a row, and of the row a descriptor asks for.
RowKey(row) == <<row.type, row.name, row.url>>
DsKey(ds) == <<ds.type, ds.service_name \o " - " \o ds.description, ds.url>>

\* The step taken is configure_sources up to its loop.
ConfigureStep == pc = "idle" /\ last'.op = "configure_sources"
\* The snapshot that step delivers.
Delivered == IF pc' = "sources" THEN pass' ELSE applied'

\* The step taken is one check_datasource(ds) that ended without a store error.
CheckStep ==
    pc = "sources" /\ last'.op = "check_datasource"
                   /\ last'.path \in {"insert", "update"}

\* C1: a snapshot delivered again right after a pass over the same snapshot
\* ran to its end starts no check_datasource (no INSERT, no UPDATE is
\* executed) and leaves the table, and so the number of rows, as it was.
C1_Idempotent ==
    [][(ConfigureStep /\ Delivered = applied)
          => (pc' = "idle" /\ queue' = <<>> /\ data_source' = data_source)]_vars

\* C1 happens: a snapshot of two datasources was applied and then delivered
\* again, and found unchanged.
C1_Witness ==
    /\ last.op = "configure_sources" /\ last.path = "unchanged"
    /\ Len(applied) = 2 /\ Len(data_source) >= 2 /\ pc = "idle"

\* C2: no two rows of DATA_SOURCE share (type, name, url).
C2_UniqueKeys ==
    \A i, j \in DOMAIN data_source :
        i # j => RowKey(data_source[i]) # RowKey(data_source[j])

\* C2 happens: a snapshot that lists one natural key twice was applied to a
\* table without its row, which now holds it once.
C2_Witness ==
    /\ Len(applied) = 2 /\ DsKey(applied[1]) = DsKey(applied[2])
    /\ last.op = "check_datasource" /\ last.path = "update"
    /\ Len(data_source) = 1

\* C3: check_datasource(ds) leaves the number of rows (and their ids) as they
\* are if and only if some row has the type, the derived name and the url of
\* ds; otherwise it adds exactly one row.
C3_InsertOrUpdate ==
    [][CheckStep =>
        IF \E i \in DOMAIN data_source : RowKey(data_source[i]) = DsKey(last'.ds)
        THEN /\ Len(data_source') = Len(data_source)
             /\ \A i \in DOMAIN data_source : data_source'[i].id = data_source[i].id
        ELSE /\ Len(data_source') = Len(data_source) + 1
             /\ SubSeq(data_source', 1, Len(data_source)) = data_source]_vars

\* C3 happens, both ways: a row was added beside rows that share two of the
\* three key columns with it ...
C3_Witness ==
    /\ last.op = "check_datasource" /\ last.path = "insert"
    /\ Len(data_source) = 3
    /\ data_source[1] = GraphiteRow
    /\ RowKey(data_source[2]) = DsKey(BaseDs("http://localhost:9090"))
    /\ RowKey(data_source[3]) = DsKey(BaseDs("http://10.0.3.216:9090"))


\* The columns the update path may write.
AuthColumns == {"basic_auth", "basic_auth_user", "basic_auth_password"}

\* Two rows agree on every column outside cols.
AgreeOutside(r1, r2, cols) ==
    DOMAIN r1 = DOMAIN r2 /\ \A c \in (DOMAIN r1) \ cols : r1[c] = r2[c]

\* Some row has the natural key of ds, and the first such row.
Known(table, ds) == \E i \in DOMAIN table : RowKey(table[i]) = DsKey(ds)
Matched(table, ds) ==
    CHOOSE i \in DOMAIN table :
        /\ RowKey(table[i]) = DsKey(ds)
        /\ \A j \in 1..(i - 1) : RowKey(table[j]) # DsKey(ds)

Both(ds) == "username" \in DOMAIN ds /\ "password" \in DOMAIN ds

\* C4: check_datasource(ds) for a ds that matches a row changes nothing but
\* the three basic-auth columns of that row: every row with another natural
\* key and another id is after the step what it was before.
C4_UpdateFrame ==
    [][(CheckStep /\ Known(data_source, last'.ds)) =>
        LET m == Matched(data_source, last'.ds)
        IN  /\ Len(data_source') = Len(data_source)
            /\ AgreeOutside(data_source'[m], data_source[m], AuthColumns)
            /\ \A i \in DOMAIN data_source :
                  (/\ RowKey(data_source[i]) # RowKey(data_source[m])
                   /\ data_source[i].id # data_source[m].id)
                  => data_source'[i] = data_source[i]]_vars

\* The basic-auth columns of a row are those ds asks for; a column that holds
\* no text, NULL or '', counts as empty.
AuthAgrees(row, ds) ==
    IF Both(ds)
    THEN /\ row.basic_auth = 1
         /\ row.basic_auth_user = ds.username
         /\ row.basic_auth_password = ds.password
    ELSE /\ row.basic_auth = 0
         /\ row.basic_auth_user \in {"", Null}
         /\ row.basic_auth_password \in {"", Null}

\* C5: when a pass over a changed snapshot (of datasources with distinct
\* natural keys) has run to its end without a store error, every datasource
\* of the snapshot has a row with its natural key whose basic-auth columns
\* are those it asks for.
C5_Converged ==
    (/\ pc = "idle" /\ last.op = "check_datasource"
     /\ last.path \in {"insert", "update"}
     /\ \A k, l \in DOMAIN applied : k # l => DsKey(applied[k]) # DsKey(applied[l]))
    => \A k \in DOMAIN applied :
          \E i \in DOMAIN data_source :
              /\ RowKey(data_source[i]) = DsKey(applied[k])
              /\ AuthAgrees(data_source[i], applied[k])

\* What C6 says of the row an insert adds, with `none` what the basic-auth
\* columns hold when ds does not carry both a username and a password.
InsertedRowIs(row, ds, none) ==
    /\ row.org_id = 1 /\ row.version = 0 /\ row.access = "proxy"
    /\ row.is_default = 0 /\ row.created = row.updated
    /\ RowKey(row) = DsKey(ds)
    /\ IF Both(ds)
       THEN /\ row.basic_auth = 1
            /\ row.basic_auth_user = ds.username
            /\ row.basic_auth_password = ds.password
       ELSE /\ row.basic_auth = 0
            /\ row.basic_auth_user = none
            /\ row.basic_auth_password = none

InsertAdds(none) ==
    (CheckStep /\ ~Known(data_source, last'.ds)) =>
        /\ Len(data_source') = Len(data_source) + 1
        /\ InsertedRowIs(data_source'[Len(data_source')], last'.ds, none)

\* C6 as claimed: check_datasource(ds) for a ds that matches no row adds one
\* row with org_id 1, version 0, access 'proxy', is_default 0, created equal
\* to updated, the type, derived name and url of ds, and basic_auth 1 with
\* the username and password of ds verbatim if ds carries both, otherwise
\* basic_auth 0 with basic_auth_user and basic_auth_password the empty text.
C6_InsertOriginal == [][InsertAdds("")]_vars

\* C6, amended: ... otherwise basic_auth 0 with basic_auth_user and
\* basic_auth_password NULL (the INSERT does not name the two columns).
C6_InsertAmended == [][InsertAdds(Null)]_vars

\* C6 happens: a datasource with a username alone was inserted.
C6_Witness ==
    /\ last.op = "check_datasource" /\ last.path = "insert"
    /\ "username" \in DOMAIN last.ds /\ ~Both(last.ds)
    /\ data_source[Len(data_source)].basic_auth = 0
    /\ data_source[Len(data_source)].basic_auth_user = Null

\* C7: check_datasource(ds) for a ds that matches a row and carries no
\* credentials leaves that row with basic_auth_user and basic_auth_password
\* '' and basic_auth 0; and no step changes is_default or json_data of a row
\* that exists.
C7_UpdateClears ==
    [][/\ (CheckStep /\ Known(data_source, last'.ds) /\ ~Both(last'.ds)) =>
            LET r == data_source'[Matched(data_source, last'.ds)]
            IN  /\ r.basic_auth_user = "" /\ r.basic_auth_password = ""
                /\ r.basic_auth = 0
       /\ Len(data_source') >= Len(data_source)
       /\ \A i \in DOMAIN data_source :
            /\ data_source'[i].id = data_source[i].id
            /\ data_source'[i].is_default = data_source[i].is_default
            /\ data_source'[i].json_data = data_source[i].json_data]_vars

\* C7 happens: the default row with credentials and json data was matched by
\* a datasource without credentials.
C7_Witness ==
    /\ last.op = "check_datasource" /\ last.path = "update" /\ ~Both(last.ds)
    /\ \E i \in DOMAIN data_source :
          /\ data_source[i] = [RelatedRow EXCEPT !.basic_auth = 0,
                                                 !.basic_auth_user = "",
                                                 !.basic_auth_password = ""]
          /\ RowKey(data_source[i]) = DsKey(last.ds)


\* The first account with login 'admin'.
HasAdmin(table) == \E i \in DOMAIN table : table[i].login = "admin"
Admin(table) ==
    CHOOSE i \in DOMAIN table :
        /\ table[i].login = "admin"
        /\ \A j \in 1..(i - 1) : table[j].login # "admin"

\* The step taken is a check_config whose db_init ran check_adminuser, which
\* found the admin account with a salt and met no store error.
RotationStep ==
    /\ pc = "sleep" /\ last'.op = "check_config" /\ ~kv.db_init
    /\ last'.path \notin {"store-error", "raised"}
    /\ HasAdmin(user) /\ user[Admin(user)].salt # Null

\* The password check_adminuser is to set: the configured one, or else the
\* generated one, which it leaves in unitdata.
DesiredPassword ==
    IF config.admin_password # "" THEN config.admin_password
    ELSE kv'.admin_password

\* C8: no step changes the salt of an account, or the number of accounts.
C8_SaltImmutable ==
    [][/\ Len(user') = Len(user)
       /\ \A i \in DOMAIN user : user'[i].salt = user[i].salt]_vars

\* C8 happens: the admin's password was rotated and a datasource was added.
C8_Witness ==
    /\ HasAdmin(user)
    /\ user[Admin(user)].theme = "light"
    /\ user[Admin(user)].password # hpwgen("admin", user[Admin(user)].salt)
    /\ Len(data_source) = 3

\* C9: after check_adminuser found the admin account with salt S and ended
\* without a store error, that account has the password
\* PBKDF2(P, S, 10000, sha256).hexread(50) for the desired password P, the
\* email root+<nagios_context or UNKNOWN>@canonical.com and the theme light.
C9_RotationResult ==
    [][RotationStep =>
        LET m == Admin(user)
            ctx == IF config.nagios_context # "" THEN config.nagios_context
                   ELSE "UNKNOWN"
        IN  /\ user'[m].password =
                  "PBKDF2(" \o DesiredPassword \o "," \o user[m].salt
                            \o ",10000,sha256).hexread(50)"
            /\ user'[m].email = "root+" \o ctx \o "@canonical.com"
            /\ user'[m].theme = "light"]_vars

\* C9 happens: the admin behind another account was rotated to a generated
\* password, with no nagios context configured.
C9_Witness ==
    /\ last.op = "check_config" /\ last.path = "rotated"
    /\ Len(user) = 2 /\ user[2].email = "root+UNKNOWN@canonical.com"
    /\ user[2].password = hpwgen(kv.admin_password, user[2].salt)
    /\ kv.admin_password \in GenPasswords

\* No account is created or deleted, and an account changes only in a
\* rotation, only if it is the admin it matched, and only in cols.
RotationWrites(cols) ==
    /\ Len(user') = Len(user)
    /\ \A i \in DOMAIN user :
          \/ user'[i] = user[i]
          \/ /\ RotationStep
             /\ i = Admin(user)
             /\ AgreeOutside(user'[i], user[i], cols)

\* C10 as claimed: a rotation changes only password, email and theme of the
\* admin row it matched; every other column of that row and every other
\* account is as before, and no account is created or deleted.
C10_FrameOriginal == [][RotationWrites({"password", "email", "theme"})]_vars

\* C10, amended: a rotation changes only password, email, theme and name
\* (which it sets to 'BootStack Team') of the admin row it matched; ...
C10_FrameAmended == [][RotationWrites({"password", "email", "theme", "name"})]_vars

\* C10 happens: the admin behind another account was rotated, and the other
\* account is as grafana created it.
C10_Witness ==
    /\ last.op = "check_config" /\ last.path = "rotated"
    /\ Len(user) = 2 /\ user[1] = ViewerRow
    /\ user[2].name = "BootStack Team" /\ user[2].theme = "light"
    /\ user[2].salt = AdminRow.salt /\ user[2].login = "admin"

\* ------------------------------------------------- claims of the two flows
\* The step taken is db_init after its sleep: check_adminuser runs.
DbInitStep == pc = "sleep" /\ last'.op = "check_config"

\* C11: when check_adminuser finds no account whose login is 'admin', it
\* writes nothing: the user table is after the step what it was before, and
\* it returns without an exception, so that db_init is marked as invoked and
\* the hook ends and flushes unitdata.
C11_NoAdminNoWrite ==
    [][(DbInitStep /\ ~HasAdmin(user)) =>
        /\ user' = user
        /\ last'.path \in {"no-admin", "store-error"}
        /\ kv'.db_init
        /\ kvDisk' = kv']_vars

\* A rotation has found no admin among the accounts and has ended.
C11_Witness ==
    /\ last.op = "check_config" /\ last.path = "no-admin"
    /\ user = <<ViewerRow>> /\ kv.db_init /\ conn = "closed"

\* C12: the admin password is generated at most once: no run of
\* check_adminuser calls host.pwgen once an earlier run has called it.
C12_GeneratedOnce ==
    [][(DbInitStep /\ config.admin_password = "") => ~generated]_vars

\* The step taken is a check_datasource(ds) that met a store error.
DatasourceErrorStep ==
    /\ pc = "sources" /\ last'.op = "check_datasource"
    /\ last'.path \in {"error-connect", "error-select", "error-execute"}

\* C13: a store error of one check_datasource(ds) does not end the pass: the
\* datasources after ds in the snapshot are still to be checked.
C13_ErrorIsolated ==
    [][DatasourceErrorStep =>
        /\ queue' = Tail(queue)
        /\ Tail(queue) # <<>> => pc' = "sources"]_vars

\* The datasources of a snapshot have distinct natural keys.
DistinctKeys(s) ==
    \A k, l \in DOMAIN s : k # l => DsKey(s[k]) # DsKey(s[l])

\* Every datasource of snapshot s has a row of its natural key in table whose
\* basic-auth columns are those it asks for.
Reconciled(table, s) ==
    \A k \in DOMAIN s :
        \E i \in DOMAIN table :
            /\ RowKey(table[i]) = DsKey(s[k])
            /\ AuthAgrees(table[i], s[k])

\* C14: the snapshot of a pass that a store error ended, delivered again, is
\* not taken for unchanged: a pass over it starts, and when that pass has
\* run to its end the table matches the snapshot (of datasources with
\* distinct natural keys).
C14_Retry ==
    [][/\ (ConfigureStep /\ failed # NoSnapshot /\ Delivered = failed)
            => (pc' = "sources" /\ queue' = failed)
       /\ (CheckStep /\ pc' = "idle" /\ failed = pass /\ DistinctKeys(pass))
            => Reconciled(data_source', pass)]_vars

\* C15: db_init does not run check_adminuser again once it is marked as
\* invoked, and a run of check_adminuser that met a store error leaves
\* db_init unmarked, so that a later check_config runs it again.
C15_MarkedOnSuccess ==
    [][/\ (pc = "idle" /\ last'.op = "check_config" /\ kv.db_init)
            => (pc' = "idle" /\ user' = user)
       /\ (DbInitStep /\ last'.path = "store-error") => ~kv'.db_init]_vars

\* C16: after every step the connection the step opened has been closed.
C16_ConnClosed == conn # "open"

\* The step taken met a store error, in either flow.
StoreErrorStep ==
    \/ DatasourceErrorStep
    \/ DbInitStep /\ last'.path = "store-error"

C18_DerivationFailure ==
    [][(DbInitStep /\ HasAdmin(user) /\ user[Admin(user)].salt = Null) =>
        /\ user' = user
        /\ last'.path \in {"raised", "store-error"}
        /\ last'.path = "raised" => (~kv'.db_init /\ kv' = kvDisk)]_vars

\* A rotation has met an admin account without a salt.
C18_Witness ==
    /\ last.op = "check_config" /\ last.path = "raised"
    /\ HasAdmin(user) /\ user[Admin(user)].salt = Null
    /\ user[Admin(user)].password = Null /\ ~kv.db_init

\* C19: the user table changes only in the step that follows the sleep of
\* db_init, with 'grafana.started' set; the sleep starts only in a
\* check_config with 'grafana.started' set and db_init unmarked; and the
\* step after the sleep starts is check_adminuser, whatever else is pending:
\* no configure_sources, check_datasource or config change comes between.
C19_Ordering ==
    [][/\ user' # user => (pc = "sleep" /\ Active("grafana.started"))
       /\ pc' = "sleep" =>
            (pc = "idle" /\ Active("grafana.started") /\ ~kv.db_init)
       /\ pc = "sleep" =>
            /\ pc' = "idle" /\ last'.op = "check_config"
            /\ last'.path \in {"rotated", "no-admin", "raised", "store-error"}
            /\ UNCHANGED <<data_source, config, pass, queue, applied>>]_vars

\* A rotation has written, after a pass over a snapshot had run to its end.
C19_Witness ==
    /\ last.op = "check_config" /\ last.path = "rotated"
    /\ applied # NoSnapshot /\ Active("grafana.started")
    /\ user[Admin(user)].theme = "light"

\* C20: a check_datasource leaves the user table as it was, a check_config
\* (with its db_init) leaves DATA_SOURCE as it was, and where
\* check_adminuser runs the two tables come out the same whether it or a
\* check_datasource(ds) runs first.
C20_Separation ==
    [][/\ (pc = "sources" /\ last'.op = "check_datasource") => user' = user
       /\ last'.op = "check_config" => data_source' = data_source
       /\ (DbInitStep /\ ~DerivationRaises(user)) =>
            \A ds \in DsUniverse, dtime \in Seconds, gen \in GenPasswords :
                StoreAfterRotation(StoreAfterCheck(Store, ds, dtime),
                                   AdminPassword(config, gen), config)
                = StoreAfterCheck(StoreAfterRotation(Store,
                                   AdminPassword(config, gen), config),
                                  ds, dtime)]_vars

\* Both flows have written: a datasource was inserted after the rotation.
C20_Witness ==
    /\ last.op = "check_datasource" /\ last.path = "insert"
    /\ kv.db_init /\ HasAdmin(user)
    /\ user[Admin(user)].theme = "light"
    /\ Len(data_source) = 3

====
